---- MODULE Spec2Model ----
(***************************************************************************)
(* rupes: duplicate-file finder (src/src/main.rs).                         *)
(*                                                                         *)
(* main parses Args, scan_directory validates the root, get_files /        *)
(* handle_file build the candidate list `paths`, find_duplicates hashes    *)
(* the candidates on a rayon pool and upserts each one into                *)
(* hashes_by_file_size under a Mutex, and main prints the groups of two    *)
(* or more paths.                                                          *)
(*                                                                         *)
(* Bytes are integers (ASCII codes); a file name is a sequence of bytes, a *)
(* path is a sequence of names (its Normal components), a file's content   *)
(* is a sequence of bytes.                                                 *)
(***************************************************************************)
EXTENDS Integers, Sequences, FiniteSets, TLC

VARIABLES
    fs,                   \* the directory tree on disk: path -> node
    args,                 \* the parsed Args
    pc,                   \* position of the main thread
    paths,                \* scan_directory's Vec<(u64, PathBuf)>
    listed,               \* directories handed to read_dir so far
    wpc,                  \* per candidate index: position of its closure call
    local,                \* per candidate index: the closure's hash / entry
    mutex,                \* holder of the Mutex around the store, 0 = free
    hashes_by_file_size,  \* the grouping store
    progress,             \* position of the progress bar
    report,               \* the groups written to stdout, in order
    total_size,           \* main's total_size
    stdout,               \* the other lines written to stdout
    stderr,               \* lines written to stderr
    exit,                 \* the process's outcome
    stack,                \* get_files calls in progress: directory, entries left
    visited,              \* the paths handed to handle_file so far, in order
    runs,                 \* number of runs of the program started so far
    prev_report           \* what the previous run left on stdout

vars == <<fs, args, pc, paths, listed, wpc, local, mutex, hashes_by_file_size,
          progress, report, total_size, stdout, stderr, exit, stack, visited,
          runs, prev_report>>

(***************************************************************************)
(* Bounds of the model.                                                    *)
(***************************************************************************)
\* number of regular files in the tree
MaxFiles == 4
\* number of times the program is run on the unchanged tree (SpecRerun)
MaxRuns == 2
\* number of symbolic links the system follows while it resolves one path
\* before it answers ELOOP (40 on Linux)
MaxSymlinks == 2

\* Option<T>: None is the empty set, Some(x) the singleton
None == {}
Some(x) == {x}
Unwrap(o) == CHOOSE x \in o : TRUE

(***************************************************************************)
(* File names, paths and contents of the trees explored.                   *)
(***************************************************************************)
NameR   == <<114>>              \* "r"
NameA   == <<97>>               \* "a"
NameAT  == <<97, 46, 116>>      \* "a.t"
NameB   == <<98>>               \* "b"
NameX   == <<120>>              \* "x"
NameY   == <<121>>              \* "y"
NameZ   == <<122>>              \* "z"
NameDot == <<46, 104>>          \* ".h"
NameN   == <<110>>              \* "n"
NameE   == <<101>>              \* "e"

Root    == <<NameR>>
DirA    == <<NameR, NameA>>
DirE    == <<NameR, NameE>>

\* the regular files a tree may hold, in the order MaxFiles takes them
FileList ==
    << <<NameR, NameAT>>, <<NameR, NameA, NameX>>, <<NameR, NameB>>,
       <<NameR, NameA, NameY>>, <<NameR, NameDot>>, <<NameR, NameA, NameZ>> >>

Files == {FileList[i] : i \in 1..(IF MaxFiles < Len(FileList) THEN MaxFiles ELSE Len(FileList))}

Hi  == <<104, 105>>             \* "hi"
By  == <<98, 121>>              \* "by"
Bye == <<98, 121, 101>>         \* "bye"
Contents == {Hi, By, Bye}

FileNode(c, r) == [kind |-> "file", content |-> c, readable |-> r, target |-> <<>>]
DirNode        == [kind |-> "dir", content |-> <<>>, readable |-> TRUE, target |-> <<>>]

\* a tree: the directories r and r/a, the empty directory r/e, and the files
\* of Files with the given contents; the files of `unreadable` cannot be
\* opened
Tree(content, unreadable) ==
    [p \in {Root, DirA, DirE} \cup Files |->
        IF p \in Files THEN FileNode(content[p], p \notin unreadable) ELSE DirNode]

(***************************************************************************)
(* The trees of the traversal runs: below r the files a.t, b and .h, the   *)
(* directory a with the file x and the directory m holding w.t, the dot    *)
(* directory .d holding y, the link l to the directory o outside r (which  *)
(* holds z) and the link k to the file r/b.                                *)
(***************************************************************************)
NameM   == <<109>>              \* "m"
NameWT  == <<119, 46, 116>>     \* "w.t"
NameD   == <<46, 100>>          \* ".d"
NameO   == <<111>>              \* "o"
NameL   == <<108>>              \* "l"
NameK   == <<107>>              \* "k"
NameU   == <<117>>              \* "u"
NameG   == <<103>>              \* "g"

DirM    == <<NameR, NameA, NameM>>
DirD    == <<NameR, NameD>>
DirO    == <<NameO>>
LinkL   == <<NameR, NameL>>
LinkK   == <<NameR, NameK>>
LinkU   == <<NameR, NameA, NameU>>
LinkG   == <<NameR, NameG>>

SymlinkNode(t) == [kind |-> "symlink", content |-> <<>>, readable |-> TRUE, target |-> t]

WalkDirs == {Root, DirA, DirM, DirD, DirO}

WalkContent ==
    [p \in {<<NameR, NameAT>>, <<NameR, NameB>>, <<NameR, NameDot>>,
            <<NameR, NameA, NameX>>, <<NameR, NameA, NameM, NameWT>>,
            <<NameR, NameD, NameY>>, <<NameO, NameZ>>} |->
        IF p \in {<<NameR, NameB>>, <<NameR, NameA, NameM, NameWT>>} THEN Bye
        ELSE IF p = <<NameR, NameA, NameX>> THEN By
        ELSE Hi]

\* the tree, with the link r/a/u to the ancestor r when `cycle`, the link
\* r/g to a missing path when `broken`, and r/a without read permission
\* when `unreadable`
WalkTree(cycle, broken, unreadable) ==
    [p \in WalkDirs \cup DOMAIN WalkContent \cup {LinkL, LinkK}
             \cup (IF cycle THEN {LinkU} ELSE {}) \cup (IF broken THEN {LinkG} ELSE {}) |->
        CASE p = LinkL -> SymlinkNode(DirO)
          [] p = LinkK -> SymlinkNode(<<NameR, NameB>>)
          [] p = LinkU -> SymlinkNode(Root)
          [] p = LinkG -> SymlinkNode(<<NameN>>)
          [] p \in WalkDirs -> [DirNode EXCEPT !.readable = ~(unreadable /\ p = DirA)]
          [] OTHER -> FileNode(WalkContent[p], TRUE)]

WalkTrees ==
    {WalkTree(c, b, u) : c \in BOOLEAN, b \in BOOLEAN, u \in BOOLEAN}

(***************************************************************************)
(* The file system as std::fs sees it.                                     *)
(***************************************************************************)
Exists(p) == p \in DOMAIN fs

NoMetadata == [ok |-> FALSE, file_type |-> "none", len |-> 0]

\* mutant: a system that follows symbolic links without limit
TooManyLinksNever(links) == FALSE

\* the ELOOP test of path resolution
TooManyLinks(links) == links >= MaxSymlinks

\* path resolution: `cur` is the node reached, `rest` the components still to
\* walk, `links` the symbolic links followed so far; the last component is
\* followed when `follow` holds (stat) and not otherwise (lstat).  Link
\* targets are absolute.  The result is the node reached, ok FALSE for ENOENT,
\* ENOTDIR and ELOOP.
RECURSIVE Resolve(_, _, _, _)
Resolve(cur, rest, links, follow) ==
    IF rest = <<>> THEN [ok |-> TRUE, node |-> cur]
    ELSE LET next == Append(cur, Head(rest)) IN
         IF ~Exists(next) THEN [ok |-> FALSE, node |-> <<>>]
         ELSE IF fs[next].kind = "symlink" /\ (Len(rest) > 1 \/ follow) THEN
            IF TooManyLinks(links) THEN [ok |-> FALSE, node |-> <<>>]
            ELSE Resolve(<<>>, fs[next].target \o Tail(rest), links + 1, follow)
         ELSE IF Len(rest) > 1 /\ fs[next].kind # "dir" THEN [ok |-> FALSE, node |-> <<>>]
         ELSE Resolve(next, Tail(rest), links, follow)

\* Path::metadata(): stat, following symbolic links; ok is FALSE when stat
\* fails
Metadata(p) ==
    LET r == Resolve(<<>>, p, 0, TRUE) IN
    IF ~r.ok THEN NoMetadata
    ELSE [ok |-> TRUE, file_type |-> fs[r.node].kind, len |-> Len(fs[r.node].content)]

\* DirEntry::metadata(): lstat, not following a link in the last component
EntryMetadata(p) ==
    LET r == Resolve(<<>>, p, 0, FALSE) IN
    IF ~r.ok THEN NoMetadata
    ELSE [ok |-> TRUE, file_type |-> fs[r.node].kind, len |-> Len(fs[r.node].content)]

\* Path::is_dir()
IsDir(p) == Metadata(p).ok /\ Metadata(p).file_type = "dir"

\* read_dir(path): the entries of the directory, each as `path` joined with
\* the entry's name; ok is FALSE when the directory cannot be listed
ReadDir(d) ==
    LET r == Resolve(<<>>, d, 0, TRUE) IN
    IF ~r.ok \/ fs[r.node].kind # "dir" \/ ~fs[r.node].readable
    THEN [ok |-> FALSE, entries |-> {}]
    ELSE [ok |-> TRUE,
          entries |-> {Append(d, p[Len(p)]) :
                          p \in {q \in DOMAIN fs : /\ Len(q) = Len(r.node) + 1
                                                   /\ SubSeq(q, 1, Len(r.node)) = r.node}}]

\* Path::file_name()
FileName(p) == p[Len(p)]

\* str::starts_with('.')
StartsWithDot(name) == Len(name) > 0 /\ name[1] = 46

\* Regex::is_match for a pattern ^.+SUFFIX$, given by its SUFFIX
IsMatch(filter, name) ==
    /\ Len(name) > Len(filter)
    /\ SubSeq(name, Len(name) - Len(filter) + 1, Len(name)) = filter

(***************************************************************************)
(* Traversal: handle_file, as the way it leaves: "err" (an Err through     *)
(* `?`), "return" (Ok with nothing done), "push" (the candidate is pushed) *)
(* or "get_files" (the recursive call).                                    *)
(***************************************************************************)
\* mutant: a strict lower bound
BelowMinStrict(min, size) == min >= size

\* the minimum-size test
BelowMin(min, size) == min > size

\* the maximum-size test
AboveMax(max, size) == max < size

\* mutant: every directory is descended into
DescendsAlways(a, file_type) == file_type = "dir"

\* the test that guards the recursive call
Descends(a, file_type) == a.recursive /\ file_type = "dir"

\* mutant: dot names are not recognised
ExcludedDotNever(a, file_name) == FALSE

\* the guard against dot files and directories
ExcludedDot(a, file_name) == a.exclude_dots /\ StartsWithDot(file_name)

\* mutant: the pattern is not applied
FilteredOutNever(a, file_name) == FALSE

\* the name filter
FilteredOut(a, file_name) == a.filter # None /\ ~IsMatch(Unwrap(a.filter), file_name)

handle_file(path, a) ==
    LET metadata == Metadata(path) IN
    IF ~metadata.ok THEN "err"
    ELSE LET size == metadata.len
             file_type == metadata.file_type
             file_name == FileName(path)
         IN
         IF ExcludedDot(a, file_name) THEN "return"
         ELSE IF file_type = "file" THEN
            IF FilteredOut(a, file_name) THEN "return"
            ELSE IF a.min # None /\ BelowMin(Unwrap(a.min), size) THEN "return"
            ELSE IF a.max # None /\ AboveMax(Unwrap(a.max), size) THEN "return"
            ELSE "push"
         ELSE IF Descends(a, file_type) THEN "get_files"
         ELSE "return"

\* mutant: symbolic links are never skipped
SkipsSymlinkNever(path, a) == FALSE

\* the symlink test of get_files' loop
SkipsSymlink(path, a) ==
    ~a.follow_symlinks /\ EntryMetadata(path).file_type = "symlink"

(***************************************************************************)
(* Digest Provider: hash_file.  A digest is cut to its first byte: the     *)
(* tables give the first byte of the real SHA-256 and MD5 digests of the   *)
(* contents explored, which are pairwise distinct.                         *)
(***************************************************************************)
\* mutant: a digest that does not depend on the content
Sha256Collide(content) == <<143>>

Sha256(content) ==
    CASE content = Hi  -> <<143>>
      [] content = By  -> <<167>>
      [] content = Bye -> <<180>>

Md5(content) ==
    CASE content = Hi  -> <<73>>
      [] content = By  -> <<223>>
      [] content = Bye -> <<191>>

\* one lowercase hexadecimal digit, as its ASCII code
HexDigit(n) == IF n < 10 THEN 48 + n ELSE 87 + n

\* base16ct::lower::encode_string
RECURSIVE EncodeLower(_)
EncodeLower(bytes) ==
    IF bytes = <<>> THEN <<>>
    ELSE <<HexDigit(Head(bytes) \div 16), HexDigit(Head(bytes) % 16)>>
         \o EncodeLower(Tail(bytes))

\* the digest of a content under the algorithm the run uses
Digest(content, a) ==
    IF a.md5 THEN EncodeLower(Md5(content)) ELSE EncodeLower(Sha256(content))

\* hash_file: File::open fails on a missing or unreadable file
hash_file(path, a) ==
    LET r == Resolve(<<>>, path, 0, TRUE) IN
    IF ~r.ok \/ fs[r.node].kind # "file" \/ ~fs[r.node].readable
    THEN [ok |-> FALSE, hash |-> <<>>]
    ELSE [ok |-> TRUE, hash |-> Digest(fs[r.node].content, a)]

(***************************************************************************)
(* The grouping store HashMap<u64, HashMap<String, IdenticalFiles>>.  A    *)
(* map is the set of its entries; an outer entry is [size, hashes], an     *)
(* inner entry [hash, paths].  Inserting through a vacant entry adds an    *)
(* entry without looking the key up again.                                 *)
(***************************************************************************)
\* HashMap::entry(size).or_default()
OrDefault(store, size) ==
    IF \E e \in store : e.size = size THEN store
    ELSE store \cup {[size |-> size, hashes |-> {}]}

\* whether hashes.entry(hash) is Entry::Vacant
IsVacant(store, size, hash) ==
    ~\E e \in store : e.size = size /\ \E g \in e.hashes : g.hash = hash

\* mutant: the push replaced by an assignment
AndModifyOverwrite(hashes, hash, path) ==
    {IF g.hash = hash THEN [g EXCEPT !.paths = <<path>>] ELSE g : g \in hashes}

\* .and_modify(|identical_files| identical_files.paths.push(path))
AndModify(hashes, hash, path) ==
    {IF g.hash = hash THEN [g EXCEPT !.paths = Append(@, path)] ELSE g : g \in hashes}

\* .or_insert(IdenticalFiles { paths: vec![path] })
OrInsert(hashes, hash, path) ==
    hashes \cup {[hash |-> hash, paths |-> <<path>>]}

\* hashes.entry(hash).and_modify(..).or_insert(..) on the inner map of `size`
Upserted(store, size, hash, path, vacant) ==
    {IF e.size = size
     THEN [e EXCEPT !.hashes = IF vacant THEN OrInsert(@, hash, path)
                               ELSE AndModify(@, hash, path)]
     ELSE e : e \in store}

\* all groups of the store, each with the size it is filed under
Groups(store) ==
    UNION {{[size |-> e.size, hash |-> g.hash, paths |-> g.paths] : g \in e.hashes} :
           e \in store}

(***************************************************************************)
(* Aggregation in main.                                                    *)
(***************************************************************************)
\* Ord for OsStr: byte-wise lexicographic
BytesLess(x, y) ==
    \E k \in 0..Len(x) :
        /\ k <= Len(y)
        /\ \A i \in 1..k : x[i] = y[i]
        /\ \/ k = Len(x) /\ k < Len(y)
           \/ k < Len(x) /\ k < Len(y) /\ x[k + 1] < y[k + 1]

\* Ord for PathBuf: lexicographic over the components
PathLess(p, q) ==
    \E k \in 0..Len(p) :
        /\ k <= Len(q)
        /\ \A i \in 1..k : p[i] = q[i]
        /\ \/ k = Len(p) /\ k < Len(q)
           \/ k < Len(p) /\ k < Len(q) /\ BytesLess(p[k + 1], q[k + 1])

RECURSIVE InsertPath(_, _)
InsertPath(p, s) ==
    IF s = <<>> THEN <<p>>
    ELSE IF PathLess(p, Head(s)) THEN <<p>> \o s
    ELSE <<Head(s)>> \o InsertPath(p, Tail(s))

\* mutant: the sort left out
SortPathsNone(s) == s

\* identical_files.paths.sort()
RECURSIVE SortPaths(_)
SortPaths(s) ==
    IF s = <<>> THEN <<>>
    ELSE CHOOSE r \in {InsertPath(Head(s), rest) : rest \in {SortPaths(Tail(s))}} : TRUE

\* path_buf.display().to_string(): the components joined by '/'
RECURSIVE Display(_)
Display(p) ==
    IF Len(p) = 0 THEN <<>>
    ELSE IF Len(p) = 1 THEN p[1]
    ELSE p[1] \o <<47>> \o Display(Tail(p))

\* mutant: the threshold off by one
IsReportedAny(g) == ~(Len(g.paths) < 1)

\* the test that keeps a group in the output
IsReported(g) == ~(Len(g.paths) < 2)

\* mutant: every copy counted as waste
DupeSizeAll(size, n) == size * n

\* dupe_size
DupeSize(size, n) == size * (n - 1)

\* one block of the output: the group's sorted paths as printed
Block(g) ==
    LET sorted == SortPaths(g.paths) IN
    [size |-> g.size, hash |-> g.hash,
     paths |-> [i \in 1..Len(sorted) |-> Display(sorted[i])],
     dupe_size |-> DupeSize(g.size, Len(g.paths))]

RECURSIVE Perms(_)
Perms(S) ==
    IF S = {} THEN {<<>>}
    ELSE UNION {{<<x>> \o p : p \in Perms(S \ {x})} : x \in S}

\* the orders in which main's two loops can meet the groups: sizes ascend
\* (sort_by_key), the groups of one size come in the inner HashMap's
\* iteration order, which is arbitrary
IterationOrders(store) ==
    {o \in Perms(Groups(store)) :
        \A i \in 1..Len(o) : \A j \in 1..Len(o) : i < j => o[i].size <= o[j].size}

RECURSIVE SumDupe(_)
SumDupe(blocks) ==
    IF blocks = <<>> THEN 0 ELSE Head(blocks).dupe_size + SumDupe(Tail(blocks))

RECURSIVE Blocks(_)
Blocks(order) ==
    IF order = <<>> THEN <<>>
    ELSE IF IsReported(Head(order)) THEN <<Block(Head(order))>> \o Blocks(Tail(order))
    ELSE Blocks(Tail(order))

(***************************************************************************)
(* The program.                                                            *)
(***************************************************************************)
DefaultArgs ==
    [directory |-> Root, recursive |-> FALSE, exclude_dots |-> FALSE,
     filter |-> None, follow_symlinks |-> FALSE, md5 |-> FALSE,
     min |-> None, max |-> None]

\* the command lines explored: an existing directory, a missing path, a
\* regular file and an empty directory as the root, each with and without
\* --recursive, and a minimum size that no file reaches
ArgsSet ==
    {[DefaultArgs EXCEPT !.directory = d, !.recursive = r] :
        d \in {Root, <<NameN>>, FileList[1], DirE}, r \in BOOLEAN}
    \cup {[DefaultArgs EXCEPT !.min = Some(4), !.recursive = r] : r \in BOOLEAN}

\* the trees explored: every assignment of contents to the files, with at
\* most one file that cannot be opened
TreesUnreadable ==
    {Tree(c, u) : c \in [Files -> Contents], u \in {{}} \cup {{f} : f \in Files}}

\* the state at the start of main, on tree t with arguments a
Start(t, a) ==
    /\ fs = t
    /\ args = a
    /\ pc = "scan_directory"
    /\ paths = <<>>
    /\ listed = {}
    /\ wpc = <<>>
    /\ local = <<>>
    /\ mutex = 0
    /\ hashes_by_file_size = {}
    /\ progress = 0
    /\ report = <<>>
    /\ total_size = 0
    /\ stdout = <<>>
    /\ stderr = <<>>
    /\ exit = "running"
    /\ stack = <<>>
    /\ visited = <<>>

Init ==
    /\ \E t \in TreesUnreadable : \E a \in ArgsSet : Start(t, a)
    /\ runs = 1
    /\ prev_report = None

Workers == 1..Len(paths)

\* mutant: the root is not validated
ValidDirectoryAlways == TRUE

\* the guard of scan_directory
ValidDirectory == IsDir(args.directory)

Front(seq) == SubSeq(seq, 1, Len(seq) - 1)

\* an Err that reaches main through the `?` operators: main returns it
Fail ==
    /\ pc' = "exited"
    /\ exit' = "failure"
    /\ stack' = <<>>

\* the call get_files(path) from a caller whose pending calls are `callers`:
\* read_dir(path)? and the start of the for loop
get_files(path, callers) ==
    /\ listed' = listed \cup {path}
    /\ IF ReadDir(path).ok
       THEN /\ stack' = Append(callers, [dir |-> path, entries |-> ReadDir(path).entries])
            /\ pc' = "get_files"
            /\ UNCHANGED exit
       ELSE Fail

\* scan_directory up to the call of get_files
ScanDirectory ==
    /\ pc = "scan_directory"
    /\ IF ~ValidDirectory
       THEN /\ stderr' = Append(stderr, "Please specify a valid directory to search")
            /\ Fail
            /\ UNCHANGED listed
       ELSE /\ get_files(args.directory, <<>>)
            /\ UNCHANGED stderr
    /\ UNCHANGED <<fs, args, paths, wpc, local, mutex, hashes_by_file_size, progress,
                   report, total_size, stdout, visited, runs, prev_report>>

\* one turn of the for loop of the innermost get_files call.  read_dir
\* yields the entries in no particular order: one order is taken here, and
\* the closures of find_duplicates run on the resulting Vec in every order.
GetFilesEntry ==
    /\ pc = "get_files"
    /\ stack[Len(stack)].entries # {}
    /\ LET path == CHOOSE p \in stack[Len(stack)].entries : TRUE
           rest == [stack EXCEPT ![Len(stack)].entries = @ \ {path}]
       IN
       IF ~args.follow_symlinks /\ ~EntryMetadata(path).ok
       THEN Fail /\ UNCHANGED <<paths, listed, visited>>
       ELSE IF SkipsSymlink(path, args)
       THEN /\ stack' = rest
            /\ UNCHANGED <<pc, exit, paths, listed, visited>>
       ELSE /\ visited' = Append(visited, path)
            /\ CASE handle_file(path, args) = "err" ->
                        Fail /\ UNCHANGED <<paths, listed>>
                 [] handle_file(path, args) = "return" ->
                        /\ stack' = rest
                        /\ UNCHANGED <<pc, exit, paths, listed>>
                 [] handle_file(path, args) = "push" ->
                        /\ paths' = Append(paths, <<Metadata(path).len, path>>)
                        /\ stack' = rest
                        /\ UNCHANGED <<pc, exit, listed>>
                 [] handle_file(path, args) = "get_files" ->
                        /\ get_files(path, rest)
                        /\ UNCHANGED paths
    /\ UNCHANGED <<fs, args, wpc, local, mutex, hashes_by_file_size, progress,
                   report, total_size, stdout, stderr, runs, prev_report>>

\* the for loop of the innermost get_files call has ended: Ok(()) goes to
\* its caller; from the outermost call scan_directory goes on to
\* find_duplicates, which starts the parallel iteration
GetFilesReturn ==
    /\ pc = "get_files"
    /\ stack[Len(stack)].entries = {}
    /\ stack' = Front(stack)
    /\ IF Len(stack) = 1
       THEN /\ wpc' = [w \in 1..Len(paths) |-> "hash_file"]
            /\ local' = [w \in 1..Len(paths) |-> [hash |-> <<>>, vacant |-> FALSE]]
            /\ pc' = "find_duplicates"
       ELSE UNCHANGED <<wpc, local, pc>>
    /\ UNCHANGED <<fs, args, paths, listed, mutex, hashes_by_file_size, progress,
                   report, total_size, stdout, stderr, exit, visited, runs,
                   prev_report>>

\* the closure of find_duplicates on candidate w: hash_file(path, args).unwrap()
HashFile(w) ==
    /\ pc = "find_duplicates"
    /\ wpc[w] = "hash_file"
    /\ LET h == hash_file(paths[w][2], args) IN
       IF h.ok
       THEN /\ local' = [local EXCEPT ![w].hash = h.hash]
            /\ wpc' = [wpc EXCEPT ![w] = "lock"]
       ELSE /\ wpc' = [wpc EXCEPT ![w] = "panicked"]
            /\ UNCHANGED local
    /\ UNCHANGED <<fs, args, pc, paths, listed, mutex, hashes_by_file_size, progress,
                   report, total_size, stdout, stderr, exit, stack, visited,
                   runs, prev_report>>

\* mutant: lock() that never waits
MutexFreeAlways == TRUE

\* Mutex::lock() returns only while no other closure holds the guard
MutexFree == mutex = 0

\* hashes_by_file_size.lock().unwrap(), .entry(*size).or_default() and
\* hashes.entry(hash)
Lock(w) ==
    /\ pc = "find_duplicates"
    /\ wpc[w] = "lock"
    /\ MutexFree
    /\ mutex' = w
    /\ hashes_by_file_size' = OrDefault(hashes_by_file_size, paths[w][1])
    /\ local' = [local EXCEPT ![w].vacant =
                    IsVacant(hashes_by_file_size, paths[w][1], local[w].hash)]
    /\ wpc' = [wpc EXCEPT ![w] = "entry"]
    /\ UNCHANGED <<fs, args, pc, paths, listed, progress, report, total_size,
                   stdout, stderr, exit, stack, visited,
                   runs, prev_report>>

\* mutant: the guard is never dropped
ReleasedNever(w) == w

\* the Mutex after closure w dropped its guard
Released(w) == 0

\* .and_modify(..).or_insert(..), progress.inc(1) and the drop of the guard
Upsert(w) ==
    /\ pc = "find_duplicates"
    /\ wpc[w] = "entry"
    /\ hashes_by_file_size' =
          Upserted(hashes_by_file_size, paths[w][1], local[w].hash, paths[w][2],
                   local[w].vacant)
    /\ progress' = progress + 1
    /\ mutex' = Released(w)
    /\ wpc' = [wpc EXCEPT ![w] = "done"]
    /\ UNCHANGED <<fs, args, pc, paths, listed, local, report, total_size,
                   stdout, stderr, exit, stack, visited,
                   runs, prev_report>>

\* a panic unwinds the sequential fold it happened in: the candidates that
\* follow in the same chunk are never handed to the closure
Skip(w) ==
    /\ pc = "find_duplicates"
    /\ wpc[w] = "hash_file"
    /\ w > 1
    /\ wpc[w - 1] \in {"panicked", "skipped"}
    /\ wpc' = [wpc EXCEPT ![w] = "skipped"]
    /\ UNCHANGED <<fs, args, pc, paths, listed, local, mutex, hashes_by_file_size,
                   progress, report, total_size, stdout, stderr, exit, stack,
                   visited, runs, prev_report>>

\* mutant: for_each that does not wait for the closures
AllEndedEarly == TRUE

\* every closure call has returned, panicked or been dropped with its chunk
AllEnded == \A w \in Workers : wpc[w] \in {"done", "panicked", "skipped"}

\* for_each returns when every closure call has ended; rayon then resumes a
\* caught panic on the calling thread, which ends the process
Join ==
    /\ pc = "find_duplicates"
    /\ AllEnded
    /\ IF \E w \in Workers : wpc[w] = "panicked"
       THEN /\ pc' = "exited"
            /\ exit' = "panic"
            /\ stderr' = Append(stderr, "called Result::unwrap() on an Err value")
       ELSE /\ pc' = "report"
            /\ UNCHANGED <<exit, stderr>>
    /\ UNCHANGED <<fs, args, paths, listed, wpc, local, mutex, hashes_by_file_size,
                   progress, report, total_size, stdout, stack, visited, runs,
                   prev_report>>

\* mutant: the store is never taken for empty
IsEmptyNever(store) == FALSE

\* HashMap::is_empty()
IsEmpty(store) == store = {}

\* main after scan_directory returned Ok
Report ==
    /\ pc = "report"
    /\ IF IsEmpty(hashes_by_file_size)
       THEN /\ stdout' = Append(stdout, "No files to scan, rupes will now exit")
            /\ UNCHANGED <<report, total_size>>
       ELSE \E order \in IterationOrders(hashes_by_file_size) :
            /\ report' = Blocks(order)
            /\ total_size' = SumDupe(Blocks(order))
            /\ UNCHANGED stdout
    /\ exit' = "success"
    /\ pc' = "exited"
    /\ UNCHANGED <<fs, args, paths, listed, wpc, local, mutex, hashes_by_file_size,
                   progress, stderr, stack, visited, runs, prev_report>>

Next ==
    \/ ScanDirectory
    \/ GetFilesEntry
    \/ GetFilesReturn
    \/ \E w \in Workers : HashFile(w)
    \/ \E w \in Workers : Lock(w)
    \/ \E w \in Workers : Upsert(w)
    \/ \E w \in Workers : Skip(w)
    \/ Join
    \/ Report

Spec == Init /\ [][Next]_vars

\* runs on trees whose files can all be opened, with every thread that can
\* take a step eventually taking one
InitFair ==
    /\ \E t \in {Tree(c, {}) : c \in [Files -> {Hi, By}]} :
       \E a \in {[DefaultArgs EXCEPT !.directory = d, !.recursive = TRUE] :
                    d \in {Root, <<NameN>>}} : Start(t, a)
    /\ runs = 1
    /\ prev_report = None

NextFair ==
    \/ ScanDirectory
    \/ GetFilesEntry
    \/ GetFilesReturn
    \/ \E w \in Workers : HashFile(w)
    \/ \E w \in Workers : Lock(w)
    \/ \E w \in Workers : Upsert(w)
    \/ Join
    \/ Report

\* the command lines of the traversal runs: the root r, the dot directory
\* r/.d or the link r/l as the root, every combination of the traversal
\* flags, the pattern ^.+[.]t$, and size bounds that some file meets exactly
WalkArgs ==
    {[directory |-> d, recursive |-> r, exclude_dots |-> e, filter |-> f,
      follow_symlinks |-> l, md5 |-> FALSE, min |-> lo, max |-> hi] :
        d \in {Root, DirD, LinkL}, r \in BOOLEAN, e \in BOOLEAN,
        f \in {None, Some(<<46, 116>>)}, l \in BOOLEAN,
        lo \in {None, Some(3)}, hi \in {None, Some(2)}}

InitWalk ==
    /\ \E t \in WalkTrees : \E a \in WalkArgs : Start(t, a)
    /\ runs = 1
    /\ prev_report = None

\* scan_directory up to the call of find_duplicates
NextWalk ==
    \/ ScanDirectory
    \/ GetFilesEntry
    \/ GetFilesReturn

SpecWalk == InitWalk /\ [][NextWalk]_vars

\* the traversal on a thread that keeps running
SpecWalkFair == InitWalk /\ [][NextWalk]_vars /\ WF_vars(NextWalk)

SpecFair == InitFair /\ [][NextFair]_vars /\ WF_vars(NextFair)

\* the program is started again on the unchanged tree with the same
\* arguments; what the run before wrote is kept for comparison
Rerun ==
    /\ pc = "exited"
    /\ runs < MaxRuns
    /\ runs' = runs + 1
    /\ prev_report' = Some(report)
    /\ pc' = "scan_directory"
    /\ paths' = <<>>
    /\ listed' = {}
    /\ wpc' = <<>>
    /\ local' = <<>>
    /\ mutex' = 0
    /\ hashes_by_file_size' = {}
    /\ progress' = 0
    /\ report' = <<>>
    /\ total_size' = 0
    /\ stdout' = <<>>
    /\ stderr' = <<>>
    /\ exit' = "running"
    /\ stack' = <<>>
    /\ visited' = <<>>
    /\ UNCHANGED <<fs, args>>

NextRerun == Next \/ Rerun

SpecRerun == Init /\ [][NextRerun]_vars

(***************************************************************************)
(* Properties.                                                             *)
(***************************************************************************)
\* the parallel phase has ended without a panic
PhaseCompleted == pc = "report" \/ (pc = "exited" /\ exit = "success")

\* the run has ended with main returning Ok
Succeeded == pc = "exited" /\ exit = "success"

\* the content and the key of candidate w
ContentOf(w) == fs[paths[w][2]].content
KeyOf(w) == <<paths[w][1], Digest(ContentOf(w), args)>>

\* number of times path p occurs in the store
Occurrences(p) ==
    Cardinality({<<g, i>> \in Groups(hashes_by_file_size) \X (1..Len(paths)) :
                    i <= Len(g.paths) /\ g.paths[i] = p})

\* candidates w and v are filed in one group
SameGroup(w, v) ==
    \E g \in Groups(hashes_by_file_size) :
        /\ \E i \in 1..Len(g.paths) : g.paths[i] = paths[w][2]
        /\ \E i \in 1..Len(g.paths) : g.paths[i] = paths[v][2]

\* C1: in every state of the parallel phase the store holds at most one
\* group per (size, digest) key, and one inner map per size
OneGroupPerKey ==
    /\ \A e1, e2 \in hashes_by_file_size : e1.size = e2.size => e1 = e2
    /\ \A g1, g2 \in Groups(hashes_by_file_size) :
          (g1.size = g2.size /\ g1.hash = g2.hash) => g1 = g2

\* C1 witness: a closure holds a vacant entry for a key while another
\* closure with the same key waits for the lock
RaceForNewKey ==
    \E w, v \in DOMAIN wpc :
        /\ w # v
        /\ wpc[w] = "entry" /\ local[w].vacant
        /\ wpc[v] = "lock"
        /\ paths[v][1] = paths[w][1] /\ local[v].hash = local[w].hash

\* C2: once the parallel phase has completed, every candidate occurs exactly
\* once in the store, in the group of its own key, and the store holds no
\* other path
NoLostUpdate ==
    PhaseCompleted =>
        /\ \A w \in Workers :
              /\ Occurrences(paths[w][2]) = 1
              /\ \E g \in Groups(hashes_by_file_size) :
                    /\ <<g.size, g.hash>> = KeyOf(w)
                    /\ \E i \in 1..Len(g.paths) : g.paths[i] = paths[w][2]
        /\ \A g \in Groups(hashes_by_file_size) : \A i \in 1..Len(g.paths) :
              \E w \in Workers : paths[w][2] = g.paths[i]

\* C2 witness: the phase completed with a group that took several upserts
\* and a group that took one
CompletedWithMergedGroup ==
    /\ pc = "report"
    /\ \E g \in Groups(hashes_by_file_size) : Len(g.paths) >= 3
    /\ \E g \in Groups(hashes_by_file_size) : Len(g.paths) = 1

\* C3: candidates of equal size and equal content end in the same group,
\* candidates of equal size and different content in different groups
GroupedByContent ==
    PhaseCompleted =>
        \A w, v \in Workers :
            paths[w][1] = paths[v][1] =>
                (SameGroup(w, v) <=> ContentOf(w) = ContentOf(v))

\* C3 witness: the final store of a tree with two files of one content and
\* a third of the same size and another content
SameSizeBothCases ==
    /\ PhaseCompleted
    /\ \E w, v, u \in Workers :
          /\ w # v /\ ContentOf(w) = ContentOf(v)
          /\ paths[u][1] = paths[w][1] /\ ContentOf(u) # ContentOf(w)

\* C4: two runs on the same tree with the same arguments write the same
\* sequence of groups, each with the same sequence of paths
ReportDeterministic ==
    (Succeeded /\ prev_report # None) => report = Unwrap(prev_report)

\* C5: the reported groups ascend by size, and groups of equal size ascend
\* by digest
OrderedBySizeThenDigest ==
    Succeeded =>
        \A i, j \in 1..Len(report) :
            i < j => \/ report[i].size < report[j].size
                     \/ /\ report[i].size = report[j].size
                        /\ BytesLess(report[i].hash, report[j].hash)

\* Path::components() of a printed path: the names between the '/'
RECURSIVE Components(_, _)
Components(str, name) ==
    IF str = <<>> THEN <<name>>
    ELSE IF Head(str) = 47 THEN <<name>> \o Components(Tail(str), <<>>)
    ELSE Components(Tail(str), Append(name, Head(str)))

\* C6 as stated: in every reported group the printed paths ascend in
\* lexicographic (byte) order
PathsInByteOrder ==
    Succeeded =>
        \A b \in 1..Len(report) : \A i, j \in 1..Len(report[b].paths) :
            i < j => BytesLess(report[b].paths[i], report[b].paths[j])

\* C6 amended: in every reported group the paths ascend in the order of
\* PathBuf, component by component, each component byte-wise
PathsInComponentOrder ==
    Succeeded =>
        \A b \in 1..Len(report) : \A i, j \in 1..Len(report[b].paths) :
            i < j => PathLess(Components(report[b].paths[i], <<>>),
                              Components(report[b].paths[j], <<>>))

\* C6 witness: a group is reported whose paths were appended out of order
ReportedGroupAppendedUnsorted ==
    /\ Succeeded
    /\ \E g \in Groups(hashes_by_file_size) :
          /\ Len(g.paths) >= 2
          /\ \E i \in 1..(Len(g.paths) - 1) : PathLess(g.paths[i + 1], g.paths[i])

\* the printed paths of a group, as a set
Printed(g) == {Display(g.paths[i]) : i \in 1..Len(g.paths)}

\* C7: the report holds exactly the groups of the completed store that have
\* two or more paths, each with all of its paths, and is empty when no two
\* candidates share a key
ExactlyDuplicateGroupsReported ==
    Succeeded =>
        LET dup == {g \in Groups(hashes_by_file_size) : Len(g.paths) >= 2} IN
        /\ Len(report) = Cardinality(dup)
        /\ \A g \in dup : \E b \in 1..Len(report) :
              /\ report[b].size = g.size /\ report[b].hash = g.hash
              /\ Len(report[b].paths) = Len(g.paths)
              /\ {report[b].paths[i] : i \in 1..Len(report[b].paths)} = Printed(g)
        /\ \A b \in 1..Len(report) : \E g \in dup :
              report[b].size = g.size /\ report[b].hash = g.hash
        /\ (\A w, v \in Workers : w # v => KeyOf(w) # KeyOf(v)) => report = <<>>

\* C7 witness: a run ended whose store held a singleton group next to a
\* duplicate group
SingletonBesideDuplicates ==
    /\ Succeeded
    /\ \E g \in Groups(hashes_by_file_size) : Len(g.paths) = 1
    /\ \E g \in Groups(hashes_by_file_size) : Len(g.paths) >= 2

RECURSIVE Wasted(_)
Wasted(groups) ==
    IF groups = {} THEN 0
    ELSE LET g == CHOOSE x \in groups : TRUE IN
         (IF Len(g.paths) >= 2 THEN g.size * (Len(g.paths) - 1) ELSE 0)
         + Wasted(groups \ {g})

\* C8: a reported group of n paths of size s has wasted space s*(n-1), and
\* the total is the sum of that over the groups of two or more paths
WastedSpace ==
    Succeeded =>
        /\ \A b \in 1..Len(report) :
              report[b].dupe_size = report[b].size * (Len(report[b].paths) - 1)
        /\ total_size = Wasted(Groups(hashes_by_file_size))

\* C8 witness: a run reported two groups of different wasted space
TwoGroupsWasted ==
    /\ Succeeded
    /\ Len(report) = 2
    /\ report[1].dupe_size # report[2].dupe_size
    /\ total_size = report[1].dupe_size + report[2].dupe_size

\* C9: when the root is not an existing directory the run fails, and no
\* directory is listed, no candidate is hashed, the store stays empty and
\* nothing is written to stdout
InvalidRootFailsFirst ==
    ~IsDir(args.directory) =>
        /\ pc \in {"scan_directory", "exited"}
        /\ pc = "exited" => exit = "failure"
        /\ listed = {} /\ visited = <<>> /\ stack = <<>>
        /\ paths = <<>> /\ progress = 0
        /\ hashes_by_file_size = {}
        /\ report = <<>> /\ stdout = <<>>

\* C9 witness: a run on a root that is a regular file has ended
InvalidRootExited ==
    /\ pc = "exited"
    /\ Exists(args.directory) /\ ~IsDir(args.directory)
    /\ stderr # <<>>

\* the groups of two or more paths among the candidates that can be hashed,
\* as sets of printed paths
ReadableDuplicates ==
    LET ok == {w \in Workers : hash_file(paths[w][2], args).ok} IN
    {s \in {{Display(paths[v][2]) : v \in {v \in ok : KeyOf(v) = KeyOf(w)}} : w \in ok} :
        Cardinality(s) >= 2}

\* C10: when the hash of a candidate fails the run still completes, and the
\* groups of the other candidates are reported without the failed one
HashFailureIsPerCandidate ==
    (pc = "exited" /\ \E w \in Workers : ~hash_file(paths[w][2], args).ok) =>
        /\ exit = "success"
        /\ {{report[b].paths[i] : i \in 1..Len(report[b].paths)} : b \in 1..Len(report)}
              = ReadableDuplicates

\* C12: when the traversal of a valid root yields no candidate the run ends
\* with success, writes the "no files" line and reports no group
NoCandidatesNoFiles ==
    (pc = "exited" /\ IsDir(args.directory) /\ paths = <<>>) =>
        /\ exit = "success"
        /\ stdout = <<"No files to scan, rupes will now exit">>
        /\ report = <<>>
        /\ stderr = <<>>

\* C12 witness: a run has ended on a directory whose every file was
\* rejected, after looking at two files or more
AllRejectedExited ==
    /\ pc = "exited"
    /\ paths = <<>>
    /\ Len(visited) >= 2

\* C18: no closure has started and the store is untouched while the
\* traversal runs; once a closure has started the candidate list is complete
\* and no get_files call is pending; the output is written only after every
\* closure has finished
PhasesSequential ==
    /\ pc \in {"scan_directory", "get_files"} =>
          /\ wpc = <<>> /\ local = <<>>
          /\ hashes_by_file_size = {} /\ progress = 0 /\ mutex = 0
    /\ wpc # <<>> => (stack = <<>> /\ Len(wpc) = Len(paths))
    /\ (pc = "report" \/ report # <<>> \/ stdout # <<>> \/ exit = "success") =>
          /\ \A w \in Workers : wpc[w] = "done"
          /\ progress = Len(paths) /\ mutex = 0

\* C18 witness: the output is about to be written after three closures or
\* more have run
ReportAfterClosures ==
    /\ pc = "report"
    /\ Len(paths) >= 3
    /\ progress = Len(paths)

\* how a run on a tree whose files can all be opened has ended: with its
\* report when the root is valid, every closure having taken the lock, ended
\* its upsert and dropped the guard; else with the failure of the root's
\* validation, before any directory was listed or any closure started
Completed ==
    /\ pc = "exited"
    /\ IF IsDir(args.directory)
       THEN /\ exit = "success"
            /\ Len(wpc) = Len(paths)
            /\ \A w \in Workers : wpc[w] = "done"
            /\ progress = Len(paths)
            /\ mutex = 0
       ELSE /\ exit = "failure"
            /\ wpc = <<>>
            /\ listed = {}

\* C19: on a tree whose files can all be opened, with fair scheduling, every
\* run ends, with its report after every closure ended its upsert and
\* released the lock when the root is valid, and else with the failure of
\* the root's validation before any closure has started
RunCompletes == <>[]Completed

\* C19 witness: a run has ended with its report after a closure waited for
\* the lock that another closure held
CompletedAfterContention ==
    /\ pc = "exited" /\ exit = "success"
    /\ Len(paths) >= 2
    /\ report # <<>>

(***************************************************************************)
(* The traversal, stated on the tree and the arguments alone.              *)
(***************************************************************************)
Candidates == {paths[i][2] : i \in 1..Len(paths)}

Prefix(p, k) == SubSeq(p, 1, k)

\* the positions of the components of p below the root of the run
BelowRoot(p) == (Len(args.directory) + 1)..Len(p)

IsSymlink(p) == EntryMetadata(p).file_type = "symlink"

\* an entry the loop of get_files hands to handle_file and that passes the
\* dot guard
Entered(e) ==
    /\ args.follow_symlinks \/ ~IsSymlink(e)
    /\ ~args.exclude_dots \/ FileName(e)[1] # 46

InBounds(size) ==
    /\ args.min = None \/ Unwrap(args.min) <= size
    /\ args.max = None \/ size <= Unwrap(args.max)

\* an entry that is a file every rule accepts
Accepted(e) ==
    /\ Entered(e)
    /\ Metadata(e).file_type = "file"
    /\ args.filter = None \/ IsMatch(Unwrap(args.filter), FileName(e))
    /\ InBounds(Metadata(e).len)

\* the entries of the directories the traversal listed
Entries == UNION {ReadDir(d).entries : d \in listed}

WalkEnded == pc = "find_duplicates"

\* C11: a run on a valid root never ends with a traversal error: an entry
\* that cannot be stat'd or listed is skipped and the run goes on to hashing
TraversalErrorsRecovered ==
    IsDir(args.directory) => exit # "failure"

\* C13 as stated: with dot-exclusion no component of a candidate's path
\* begins with '.', and no listed directory has such a component
DotsExcluded ==
    args.exclude_dots =>
        \A p \in Candidates \cup listed : \A k \in 1..Len(p) : ~StartsWithDot(p[k])

\* C13: with dot-exclusion no component below the root of a candidate's path
\* begins with '.', and no directory below the root whose name begins with
\* '.' is listed
DotsExcludedBelowRoot ==
    args.exclude_dots =>
        \A p \in Candidates \cup listed : \A k \in BelowRoot(p) : ~StartsWithDot(p[k])

\* C13 witness: a recursive traversal with dot-exclusion has ended after it
\* met a dot file and a dot directory, with candidates
DotEntriesMet ==
    /\ WalkEnded /\ args.exclude_dots /\ args.recursive
    /\ \E i, j \in 1..Len(visited) :
          /\ StartsWithDot(FileName(visited[i])) /\ Metadata(visited[i]).file_type = "dir"
          /\ StartsWithDot(FileName(visited[j])) /\ Metadata(visited[j]).file_type = "file"
    /\ Candidates # {}

\* C14 as stated: without symlink-following no prefix of a candidate's path
\* is a symbolic link
NoSymlinkTraversed ==
    ~args.follow_symlinks =>
        \A p \in Candidates : \A k \in 1..Len(p) : ~IsSymlink(Prefix(p, k))

\* C14: without symlink-following no prefix below the root of a candidate's
\* or listed directory's path is a symbolic link, and handle_file is never
\* called on one; with following and recursion the symlinked directories the
\* traversal meets are listed and the files every rule accepts below them
\* are candidates
SymlinksBelowRoot ==
    /\ ~args.follow_symlinks =>
          /\ \A p \in Candidates \cup listed :
                \A k \in BelowRoot(p) : ~IsSymlink(Prefix(p, k))
          /\ \A i \in 1..Len(visited) : ~IsSymlink(visited[i])
    /\ (args.follow_symlinks /\ args.recursive /\ WalkEnded) =>
          \A e \in Entries :
             /\ (IsSymlink(e) /\ Entered(e) /\ Metadata(e).file_type = "dir") => e \in listed
             /\ ((\E k \in BelowRoot(e) : IsSymlink(Prefix(e, k))) /\ Accepted(e)) =>
                   e \in Candidates

\* C14 witness: a recursive traversal that follows links has ended with a
\* candidate below a symlinked directory
FileThroughSymlink ==
    /\ WalkEnded /\ args.follow_symlinks /\ args.recursive
    /\ \E p \in Candidates : \E k \in BelowRoot(p) : k < Len(p) /\ IsSymlink(Prefix(p, k))

\* C15: every candidate's size is within [min, max], and every entry met
\* that the other rules accept and whose size is within the bounds, the
\* bounds themselves included, is a candidate
SizeBoundsInclusive ==
    /\ \A i \in 1..Len(paths) :
          /\ paths[i][1] = Metadata(paths[i][2]).len
          /\ InBounds(paths[i][1])
    /\ WalkEnded =>
          \A e \in Entries :
             (Accepted(e) /\ Some(Metadata(e).len) \in {args.min, args.max}) => e \in Candidates
    /\ \A e \in Candidates : Metadata(e).file_type = "file"

\* C15 witness: a traversal with a minimum has ended with a candidate of
\* exactly that size, having met a smaller file
SizeEqualsMin ==
    /\ WalkEnded /\ args.min # None
    /\ \E i \in 1..Len(paths) : Some(paths[i][1]) = args.min
    /\ \E i \in 1..Len(visited) :
          /\ Metadata(visited[i]).file_type = "file"
          /\ Metadata(visited[i]).len < Unwrap(args.min)

\* C16: with a pattern every candidate's name matches it, and in recursive
\* mode a directory met is listed whether or not its name matches, the
\* matching files below it being candidates
NameFilterFilesOnly ==
    args.filter # None =>
        /\ \A p \in Candidates : IsMatch(Unwrap(args.filter), FileName(p))
        /\ (args.recursive /\ WalkEnded) =>
              \A e \in Entries :
                 /\ (Entered(e) /\ Metadata(e).file_type = "dir"
                       /\ ~IsMatch(Unwrap(args.filter), FileName(e))) => e \in listed
                 /\ (Accepted(e) /\ Len(e) > Len(args.directory) + 1) => e \in Candidates

\* C16 witness: a recursive traversal with a pattern has ended with a
\* candidate in a directory whose name does not match, having met a file
\* whose name does not match
MatchBelowUnmatchedDir ==
    /\ WalkEnded /\ args.filter # None /\ args.recursive
    /\ \E p \in Candidates :
          /\ Len(p) > Len(args.directory) + 1
          /\ ~IsMatch(Unwrap(args.filter), p[Len(p) - 1])
    /\ \E i \in 1..Len(visited) :
          /\ Metadata(visited[i]).file_type = "file"
          /\ ~IsMatch(Unwrap(args.filter), FileName(visited[i]))

\* C17: in non-recursive mode only the root is listed and every candidate
\* is an entry of the root; in recursive mode every directory met that is
\* entered is listed and every file met that the rules accept is a candidate
RecursionAsConfigured ==
    /\ ~args.recursive =>
          /\ listed \subseteq {args.directory}
          /\ \A p \in Candidates : Len(p) = Len(args.directory) + 1
          /\ Len(stack) <= 1
    /\ (args.recursive /\ WalkEnded) =>
          \A e \in Entries :
             /\ (Entered(e) /\ Metadata(e).file_type = "dir") => e \in listed
             /\ Accepted(e) => e \in Candidates
    /\ Candidates \subseteq {e \in Entries : Accepted(e)}

\* C17 witness: a non-recursive traversal has ended after it met a
\* directory that holds files, with candidates
SubdirectoryNotListed ==
    /\ WalkEnded /\ ~args.recursive
    /\ \E i \in 1..Len(visited) :
          /\ Metadata(visited[i]).file_type = "dir"
          /\ ReadDir(visited[i]).entries # {}
    /\ Candidates # {}

\* the number of symbolic links among the prefixes of p
LinksIn(p) == Cardinality({k \in 1..Len(p) : IsSymlink(Prefix(p, k))})

\* the traversal hands no path to handle_file twice, lists only directories
\* whose path holds no more links than the system follows, and holds no more
\* pending calls than directories listed
VisitsBounded ==
    /\ \A i, j \in 1..Len(visited) : i # j => visited[i] # visited[j]
    /\ \A d \in listed : LinksIn(d) <= MaxSymlinks
    /\ \A i \in 1..Len(visited) : LinksIn(visited[i]) <= MaxSymlinks + 1
    /\ Len(stack) <= Cardinality(listed)

\* C20: every traversal ends, with the candidate list or with an error, and
\* until then visits no path twice and no path that holds more links than
\* the system follows: each file of a finite tree is visited finitely often
TraversalTerminates ==
    /\ []VisitsBounded
    /\ <>(pc \in {"find_duplicates", "exited"})

\* C20 witness: a recursive traversal that follows links has ended on a tree
\* with a link to an ancestor, after it met one file under two paths
CycleWalkEnded ==
    /\ pc = "exited"
    /\ args.follow_symlinks /\ args.recursive
    /\ LinkU \in DOMAIN fs
    /\ \E i, j \in 1..Len(visited) :
          /\ i # j
          /\ Metadata(visited[i]).ok /\ Metadata(visited[i]).file_type = "file"
          /\ Resolve(<<>>, visited[i], 0, TRUE) = Resolve(<<>>, visited[j], 0, TRUE)
          /\ LinksIn(visited[j]) > 0

====
